---- MODULE Spec2Model ----
(***************************************************************************)
(* Model of the identity fetch cache of the portal client:                 *)
(* PortalClient._get_with_cache (src/client.py:183-241), together with the *)
(* two collaborators it calls: the key-value store (PortalCache.get/put)   *)
(* and the injected remote fetch function `func`.                          *)
(***************************************************************************)
EXTENDS Integers, Sequences, FiniteSets, TLC

\* ---------------------------------------------------------------- bounds
MaxId == 2          \* identities are the integers 1..MaxId
MaxLen == 3         \* longest requested list / tuple

\* ------------------------------------------------------------ data model
IdNums == 1..MaxId

\* the canonical string form of every identity that can be requested
StrIds == {ToString(n) : n \in IdNums}

\* entity kinds (the entity_type argument); _get_with_cache only hands the kind
\* on to the store, so one kind exercises all of its paths
Kinds == {"molecule"}

\* Python's None as a result-slot value
None == [tag |-> "None", kind |-> "", id |-> "", full |-> FALSE]

\* a deserialized entity; full = FALSE when it was fetched under a field filter
Entity(kind, sid, full) == [tag |-> "Entity", kind |-> kind, id |-> sid, full |-> full]

\* the `include` argument: None, or a list of field names
NoInclude == [given |-> FALSE, fields |-> <<>>]

Includes == {NoInclude,
             [given |-> TRUE, fields |-> <<"name">>],
             [given |-> TRUE, fields |-> <<"ids">>]}

\* sequences over S of length 0..n
SeqUpTo(S, n) == UNION {[1..k -> S] : k \in 0..n}

\* an identity as the caller writes it: the integer n, or a string
RawInt(n) == [isint |-> TRUE, n |-> n, s |-> ""]

RawStr(t) == [isint |-> FALSE, n |-> 0, s |-> t]

IntIds == {RawInt(n) : n \in IdNums}

\* every identity in both of its forms: the integer and its decimal string
RawIds == IntIds \cup {RawStr(ToString(n)) : n \in IdNums}

\* the `id` argument: a single int, a list of ints, or a tuple of no, one or
\* two ints
IdArgs == {[shape |-> "scalar", items |-> <<x>>] : x \in IntIds}
          \cup {[shape |-> "list", items |-> s] : s \in SeqUpTo(IntIds, MaxLen)}
          \cup {[shape |-> "tuple", items |-> <<>>]}
          \cup {[shape |-> "tuple", items |-> <<x>>] : x \in IntIds}
          \cup {[shape |-> "tuple", items |-> <<x, y>>] : x \in IntIds, y \in IntIds}

\* the `id` argument in integer and string form: a single identity, a list of
\* one identity, or a list that holds one identity in both of its forms
MixedIdArgs == {[shape |-> "scalar", items |-> <<x>>] : x \in RawIds}
               \cup {[shape |-> "list", items |-> <<x>>] : x \in RawIds}
               \cup {[shape |-> "list", items |-> <<RawInt(n), RawStr(ToString(n))>>] : n \in IdNums}
               \cup {[shape |-> "list", items |-> <<RawStr(ToString(n)), RawInt(n)>>] : n \in IdNums}

\* how the remote fetch function reports an identity it does not have:
\* it leaves the key out of its results mapping, or maps it to None

\* what a call of func does: it answers in one of the styles above, or raises
FetchBehaviours == {"omit", "none", "raise"}

\* the error a failing func raises (network, auth or server error)
FetchError == "RemoteFetchError"

\* ------------------------------------------------------- sequence helpers
Range(s) == {s[i] : i \in DOMAIN s}

NoDuplicates(s) == \A i, j \in DOMAIN s : s[i] = s[j] => i = j

\* list.remove(x): drop the first occurrence of x (x is known to occur)
RECURSIVE ListRemove(_, _)
ListRemove(s, x) ==
    IF s = <<>> THEN <<>>
    ELSE IF Head(s) = x THEN Tail(s)
    ELSE <<Head(s)>> \o ListRemove(Tail(s), x)

\* for i in cached: ids.remove(i)
RECURSIVE RemoveCached(_, _)
RemoveCached(ids, keys) ==
    IF keys = {} THEN ids
    ELSE LET k == CHOOSE x \in keys : TRUE
         IN RemoveCached(ListRemove(ids, k), keys \ {k})

\* dict.update: entries of upd win
DictUpdate(d, upd) ==
    [k \in (DOMAIN d) \cup (DOMAIN upd) |-> IF k \in DOMAIN upd THEN upd[k] ELSE d[k]]

\* dict.get(k, None)
DictGet(d, k) == IF k \in DOMAIN d THEN d[k] ELSE None

EmptyDict == [k \in {} |-> None]

\* ------------------------------------------------------ utils (qcportal.utils)
\* Python's str(): the decimal digits of an int, a str as it is
PyStr(x) == IF x.isint THEN ToString(x.n) ELSE x.s

\* Python's repr(): the decimal digits of an int, a str in quotes

\* make_str: every identity becomes its string, the shape is kept
make_str(id) == [shape |-> id.shape, items |-> [i \in DOMAIN id.items |-> PyStr(id.items[i])]]

\* make_list: a single (string) object becomes a one-element list,
\* a list or tuple becomes a list of its elements
make_list(obj) == obj.items

\* ------------------------------------------------------ PortalCache
\* get: the entries of the kind's namespace among the ids asked for
CacheGet(st, ids, kind) == [k \in Range(ids) \cap DOMAIN st[kind] |-> st[kind][k]]

\* put: insert / overwrite under the kind's namespace
CachePut(st, items, kind) == [st EXCEPT ![kind] = DictUpdate(st[kind], items)]

\* ------------------------------------------------------ remote fetch function
\* results of func(payload): found identities map to their entity; an identity
\* the server does not have is left out or mapped to None
FetchResults(rem, payload, kind, style) ==
    LET asked == Range(payload.ids)
        full == ~payload.include.given
    IN [k \in (IF style = "none" THEN asked ELSE asked \cap rem) |->
            IF k \in rem THEN Entity(kind, k, full) ELSE None]

\* the cacheable part of func(payload): the entities found
FetchToCache(rem, payload, kind) ==
    [k \in Range(payload.ids) \cap rem |-> Entity(kind, k, ~payload.include.given)]

\* func(payload) raises instead of answering
FetchRaises(style) == style = "raise"

\* ------------------------------------------------------ _get_with_cache
\* a variant of line 184 that normalizes with repr() instead of str()
StrIdRepr(id) == [shape |-> id.shape, items |-> [i \in DOMAIN id.items |->
                      IF id.items[i].isint THEN ToString(id.items[i].n)
                      ELSE "'" \o id.items[i].s \o "'"]]

\* line 184: str_id = make_str(id)
StrId(id) == make_str(id)

\* a variant of line 191 that consults the store whatever `include` is
UsesCacheAlways(include) == TRUE

\* line 191: the store is consulted only when no field filter is given
UsesCache(include) == ~include.given

\* lines 191-194: cached = self._cache.get(ids, ...) or {}
CachedEntries(st, ids, kind, include) ==
    IF UsesCache(include) THEN CacheGet(st, ids, kind) ELSE EmptyDict

\* lines 196-197: the ids left to fetch
IdsToFetch(ids, cached) == RemoveCached(ids, DOMAIN cached)

\* a variant without the early return of line 200
AllFoundNever(ids) == FALSE

\* line 200: if all ids found in cache, no need to go further
AllFound(ids) == Len(ids) = 0

\* lines 201, 236: isinstance(id, list)
IsList(id) == id.shape = "list"

\* lines 212-213: include.append("ids") unless already there
IncludeForPayload(include) ==
    IF ~include.given \/ "ids" \in Range(include.fields) THEN include
    ELSE [given |-> TRUE, fields |-> Append(include.fields, "ids")]

\* lines 207-218: the payload handed to func
Payload(ids, include) == [ids |-> ids, include |-> IncludeForPayload(include)]

\* a variant of line 220 that calls func a second time
FetchAttemptsRetry(payload) == <<payload, payload>>

\* line 220: func is called once with the payload
FetchAttempts(payload) == <<payload>>

\* a variant of line 224 that stores the results mapping
ToStoreResults(results, to_cache) == results

\* line 224: of the two values func returned, to_cache is what is stored
ToStore(results, to_cache) == to_cache

\* a variant of lines 223-224 that never writes to the store
PutCallsNever(include, to_cache) == <<>>

\* lines 223-224: what is written to the store after the fetch
PutCalls(include, to_cache) == IF UsesCache(include) THEN <<to_cache>> ELSE <<>>

\* a variant of lines 223-233 that writes to the store only after the test
\* for missing identities has passed
StoreAfterFetchUnlessRaised(st, puts, kind, raises) ==
    IF puts = <<>> \/ raises THEN st ELSE CachePut(st, puts[1], kind)

\* lines 223-233: the store after the fetch; the put of line 224 comes before
\* the test of line 232, so it happens whether or not the call then raises
StoreAfterFetch(st, puts, kind, raises) ==
    IF puts = <<>> THEN st ELSE CachePut(st, puts[1], kind)

\* a variant of line 230 that keeps one missing identity only
MissingFirst(str_id, results) ==
    LET m == Range(make_list(str_id)) \ DOMAIN results
    IN IF m = {} THEN {} ELSE {CHOOSE x \in m : TRUE}

\* line 230: missing = set(make_list(str_id)) - set(results.keys())
Missing(str_id, results) == Range(make_list(str_id)) \ DOMAIN results

\* a variant of line 232 that ignores missing_ok
RaisesNotFoundAlways(missing, missing_ok) == missing # {}

\* line 232: if missing and not missing_ok
RaisesNotFound(missing, missing_ok) == missing # {} /\ ~missing_ok

\* lines 201-204: the return value on the full-hit path; a tuple is not a
\* key of the dict, so cached[str_id] raises KeyError for it
FullHitReturn(id, str_id, cached) ==
    IF IsList(id)
    THEN [outcome |-> "returned", shape |-> "list",
          items |-> [i \in DOMAIN str_id.items |-> cached[str_id.items[i]]]]
    ELSE IF str_id.shape = "scalar" /\ str_id.items[1] \in DOMAIN cached
    THEN [outcome |-> "returned", shape |-> "scalar", items |-> <<cached[str_id.items[1]]>>]
    ELSE [outcome |-> "raised", shape |-> "none", items |-> <<>>]

\* a variant of lines 236-241 that walks the id list from its end
OrderedReversed(id, str_id, results) ==
    IF IsList(id)
    THEN [outcome |-> "returned", shape |-> "list",
          items |-> [i \in DOMAIN str_id.items |->
                        DictGet(results, str_id.items[Len(str_id.items) + 1 - i])]]
    ELSE IF str_id.shape = "scalar"
    THEN [outcome |-> "returned", shape |-> "scalar", items |-> <<DictGet(results, str_id.items[1])>>]
    ELSE [outcome |-> "returned", shape |-> "scalar", items |-> <<None>>]

\* lines 236-241: order the results by input id list; results.get(str_id, None)
\* with a tuple str_id finds no key and gives None
Ordered(id, str_id, results) ==
    IF IsList(id)
    THEN [outcome |-> "returned", shape |-> "list",
          items |-> [i \in DOMAIN str_id.items |-> DictGet(results, str_id.items[i])]]
    ELSE IF str_id.shape = "scalar"
    THEN [outcome |-> "returned", shape |-> "scalar", items |-> <<DictGet(results, str_id.items[1])>>]
    ELSE [outcome |-> "returned", shape |-> "scalar", items |-> <<None>>]

\* the record of a call: its arguments, what it did to its collaborators and
\* how it ended
CallRecord(id, missing_ok, kind, include, style, st, gets, fetches, puts, ret, raisedAt, missing) ==
    [valid |-> TRUE, id |-> id, missing_ok |-> missing_ok, kind |-> kind,
     include |-> include, style |-> IF fetches = <<>> THEN "" ELSE style, storeBefore |-> st,
     gets |-> gets, fetches |-> fetches, puts |-> puts,
     includeAfter |-> IF fetches = <<>> THEN include ELSE fetches[1].include,
     outcome |-> ret.outcome, raisedAt |-> raisedAt, missing |-> missing,
     error |-> IF raisedAt = 220 THEN FetchError ELSE IF raisedAt # 0 THEN "KeyError" ELSE "",
     shape |-> ret.shape, items |-> ret.items]

NoCall ==
    [valid |-> FALSE, id |-> [shape |-> "none", items |-> <<>>], missing_ok |-> FALSE,
     kind |-> "", include |-> NoInclude, style |-> "", storeBefore |-> <<>>,
     gets |-> <<>>, fetches |-> <<>>, puts |-> <<>>, includeAfter |-> NoInclude,
     outcome |-> "", raisedAt |-> 0, missing |-> {}, error |-> "", shape |-> "none", items |-> <<>>]

\* lines 183-241, the whole call: the record of the call and the store after it
GetWithCache(st, rem, id, missing_ok, kind, include, style) ==
    LET str_id == StrId(id)
        ids0 == make_list(str_id)
        gets == IF UsesCache(include) THEN <<ids0>> ELSE <<>>
        cached == CachedEntries(st, ids0, kind, include)
        ids == IdsToFetch(ids0, cached)
    IN IF AllFound(ids)
       THEN LET ret == FullHitReturn(id, str_id, cached)
            IN [call |-> CallRecord(id, missing_ok, kind, include, style, st, gets, <<>>, <<>>, ret,
                                    IF ret.outcome = "raised" THEN 204 ELSE 0, {}),
                store |-> st]
       ELSE IF FetchRaises(style)
       THEN \* line 220 raises: nothing after it runs, the error reaches the caller
            LET payload == Payload(ids, include)
            IN [call |-> CallRecord(id, missing_ok, kind, include, style, st, gets,
                                    FetchAttempts(payload), <<>>,
                                    [outcome |-> "raised", shape |-> "none", items |-> <<>>], 220, {}),
                store |-> st]
       ELSE LET payload == Payload(ids, include)
                fetched == FetchResults(rem, payload, kind, style)
                to_cache == FetchToCache(rem, payload, kind)
                puts == PutCalls(include, ToStore(fetched, to_cache))
                results == DictUpdate(fetched, cached)
                missing == Missing(str_id, results)
                st2 == StoreAfterFetch(st, puts, kind, RaisesNotFound(missing, missing_ok))
                ret == IF RaisesNotFound(missing, missing_ok)
                       THEN [outcome |-> "raised", shape |-> "none", items |-> <<>>]
                       ELSE Ordered(id, str_id, results)
            IN [call |-> CallRecord(id, missing_ok, kind, include, style, st, gets, FetchAttempts(payload), puts, ret,
                                    IF ret.outcome = "raised" THEN 233 ELSE 0,
                                    IF ret.outcome = "raised" THEN missing ELSE {}),
                store |-> st2]

\* ------------------------------------------------- the get and query accessors
\* the largest limit the server advertises for an operation
MaxLimit == 2

\* the bulk get-by-id accessors of the client
GetAccessors == {"get_molecules", "get_keywords", "get_records", "get_singlepoints",
                 "get_optimizations", "get_torsiondrives", "get_gridoptimizations",
                 "get_reactions", "get_managers"}

\* the query methods that take a limit
QueryMethods == {"query_molecules", "query_records", "query_singlepoints",
                 "query_optimizations", "query_torsiondrives", "query_gridoptimizations",
                 "query_reactions", "query_managers", "query_server_stats",
                 "query_access_log", "query_error_log"}

\* the keys of api_limits the client reads
LimitKeys == {"get_molecules", "get_keywords", "get_records", "get_managers",
              "get_server_stats", "get_access_logs", "get_error_logs"}

\* the names of managers, which are strings
NameIds == {RawStr(t) : t \in StrIds}

\* the first argument an accessor is called with; the `names` argument of
\* get_managers is one name or a list of names
AccArgs(name) ==
    IF name = "get_managers"
    THEN {[shape |-> "scalar", items |-> <<x>>] : x \in NameIds}
         \cup {[shape |-> "list", items |-> s] : s \in SeqUpTo(NameIds, MaxLen)}
    ELSE IdArgs

\* the optional `limit` argument of a query: None or an integer
NoLimit == [given |-> FALSE, n |-> 0]

GivenLimit(n) == [given |-> TRUE, n |-> n]

\* the accessors that compare the number of ids with api_limits before the
\* request: get_molecules and get_managers have no such test

\* the key of api_limits the test of an accessor reads
GetLimitKey(name) == IF name = "get_keywords" THEN "get_keywords" ELSE "get_records"

\* the key of api_limits a query method reads
QueryLimitKey(method) ==
    CASE method = "query_molecules" -> "get_molecules"
      [] method = "query_managers" -> "get_managers"
      [] method = "query_server_stats" -> "get_server_stats"
      [] method = "query_access_log" -> "get_access_logs"
      [] method = "query_error_log" -> "get_error_logs"
      [] OTHER -> "get_records"

\* isinstance(x, Sequence): true of a list, a tuple and a str
AccIsSequence(arg) == arg.shape \in {"list", "tuple"} \/ ~arg.items[1].isint

\* what the server answers to a bulkGet: one object or None for every id, in
\* the order asked
BulkGetItems(rem, name, lst) ==
    [i \in DOMAIN lst |-> IF PyStr(lst[i]) \in rem THEN Entity(name, PyStr(lst[i]), TRUE) ELSE None]

\* the server rejects a bulkGet for an id it does not have, unless missing_ok
BulkGetRaises(rem, lst, missing_ok) ==
    ~missing_ok /\ \E i \in DOMAIN lst : PyStr(lst[i]) \notin rem

\* one request sent through _auto_request
Request(method, ids, limit) == [method |-> method, ids |-> ids, limit |-> limit]

\* the record of one accessor call: its arguments, the limits it ran under,
\* the requests it sent, and its outcome
AccRecord(name, arg, missing_ok, limit, requests, outcome, error, shape, items) ==
    [valid |-> TRUE, name |-> name, arg |-> arg, missing_ok |-> missing_ok, limit |-> limit,
     requests |-> requests, outcome |-> outcome, error |-> error, shape |-> shape,
     items |-> items]

NoAcc ==
    [valid |-> FALSE, name |-> "", arg |-> [shape |-> "list", items |-> <<>>],
     missing_ok |-> FALSE, limit |-> NoLimit, requests |-> <<>>, outcome |-> "", error |-> "",
     shape |-> "", items |-> <<>>]

\* a get accessor from its first line to its return or raise
GetById(name, arg, missing_ok, limits, rem) ==
    LET lst == make_list(arg)
        req == Request(name, lst, NoLimit)
    IN IF Len(lst) = 0
       THEN AccRecord(name, arg, missing_ok, NoLimit, <<>>, "returned", "", "list", <<>>)
       ELSE IF name \notin {"get_molecules", "get_managers"} /\ Len(lst) > limits[GetLimitKey(name)]
       THEN AccRecord(name, arg, missing_ok, NoLimit, <<>>, "raised", "RuntimeError", "", <<>>)
       ELSE IF BulkGetRaises(rem, lst, missing_ok)
       THEN AccRecord(name, arg, missing_ok, NoLimit, <<req>>, "raised", "ServerError", "", <<>>)
       ELSE AccRecord(name, arg, missing_ok, NoLimit, <<req>>, "returned", "",
                      IF AccIsSequence(arg) THEN "list" ELSE "single",
                      BulkGetItems(rem, name, lst))

\* the limit a query sends, with the test removed
ClampLimitNever(limit, serverLimit) == limit

\* the limit a query sends: the caller's, or the server's when the caller's is
\* larger
ClampLimit(limit, serverLimit) ==
    IF limit.given /\ limit.n > serverLimit
    THEN GivenLimit(IF limit.n < serverLimit THEN limit.n ELSE serverLimit)
    ELSE limit

\* a query method from its first line to its return
QueryWithLimit(method, limit, limits) ==
    LET sent == ClampLimit(limit, limits[QueryLimitKey(method)])
    IN AccRecord(method, [shape |-> "list", items |-> <<>>], FALSE, limit,
                 <<Request(method, <<>>, sent)>>, "returned", "", "", <<>>)

\* ------------------------------------------ the dataset and its local snapshot
\* longest list of record items in the snapshot a dataset starts with
MaxItems == 2

SpecNames == {"spec" \o ToString(n) : n \in IdNums}

EntryNames == {"entry" \o ToString(n) : n \in IdNums}

\* one item of raw_data.specifications: a dict keeps its items in the order
\* their keys were first set
SpecItem(name, value) == [name |-> name, value |-> value]

\* one element of raw_data.record_items
RecordItem(entry_name, specification_name, record) ==
    [entry_name |-> entry_name, specification_name |-> specification_name, record |-> record]

\* raw_data.record_items is Optional: None, or a list
NoItems == [none |-> TRUE, items |-> <<>>]

ItemList(s) == [none |-> FALSE, items |-> s]

\* the specifications a snapshot can hold: every name at most once, each with
\* the value the server keeps under that name
SpecDicts ==
    {[i \in DOMAIN s |-> SpecItem(s[i], "value of " \o s[i])] :
        s \in {t \in SeqUpTo(SpecNames, Cardinality(SpecNames)) : NoDuplicates(t)}}

\* the (entry, specification) pairs a record item can be for, numbered
PairCount == Cardinality(EntryNames) * Cardinality(SpecNames)

PairItem(c) ==
    LET e == "entry" \o ToString(((c - 1) \div Cardinality(SpecNames)) + 1)
        n == "spec" \o ToString(((c - 1) % Cardinality(SpecNames)) + 1)
    IN RecordItem(e, n, "record of " \o e \o " " \o n)

\* the record items a snapshot can hold: None, or at most MaxItems items, one
\* for an (entry, specification) pair, listed in the order of the pairs
RecordItemLists ==
    {NoItems} \cup
    {ItemList([i \in DOMAIN s |-> PairItem(s[i])]) :
        s \in {t \in SeqUpTo(1..PairCount, MaxItems) :
                  \A i, j \in DOMAIN t : i < j => t[i] < t[j]}}

\* the names a caller passes as a list, each list in one order
RECURSIVE NameLists(_)
NameLists(S) ==
    IF S = {} THEN {<<>>}
    ELSE LET x == CHOOSE y \in S : TRUE
             rest == NameLists(S \ {x})
         IN rest \cup {<<x>> \o r : r \in rest}

\* d[k] = v on a dict: an existing key keeps its place and takes the value, a
\* new key goes to the end
DictSetItem(d, k, v) ==
    IF \E i \in DOMAIN d : d[i].name = k
    THEN [i \in DOMAIN d |-> IF d[i].name = k THEN SpecItem(k, v) ELSE d[i]]
    ELSE Append(d, SpecItem(k, v))

\* name_map.get(x, x) for name_map = {old_name: new_name}
NameMapGet(old_name, new_name, x) == IF x = old_name THEN new_name ELSE x

\* {name_map.get(x, x): y for x, y in specifications.items()}
RECURSIVE RenamedSpecifications(_, _, _)
RenamedSpecifications(d, old_name, new_name) ==
    IF Len(d) = 0 THEN <<>>
    ELSE DictSetItem(RenamedSpecifications(SubSeq(d, 1, Len(d) - 1), old_name, new_name),
                     NameMapGet(old_name, new_name, d[Len(d)].name), d[Len(d)].value)

\* `if record_items:` is false of None and of the empty list
Truthy(ri) == ~ri.none /\ Len(ri.items) > 0

\* the record items after rename_specification
RenamedRecordItems(ri, old_name, new_name) ==
    IF Truthy(ri)
    THEN ItemList([i \in DOMAIN ri.items |->
                     [ri.items[i] EXCEPT !.specification_name = NameMapGet(old_name, new_name, @)]])
    ELSE ri

\* _lookup_record: the record of the first item with both names, or None
LookupRecord(ri, entry_name, specification_name) ==
    IF ri.none THEN "None"
    ELSE LET hits == {i \in DOMAIN ri.items : /\ ri.items[i].specification_name = specification_name
                                              /\ ri.items[i].entry_name = entry_name}
         IN IF hits = {} THEN "None"
            ELSE ri.items[CHOOSE i \in hits : \A j \in hits : i <= j].record

\* the value the dict holds under a name, or None
SpecGet(d, name) ==
    IF \E i \in DOMAIN d : d[i].name = name
    THEN d[CHOOSE i \in DOMAIN d : d[i].name = name].value
    ELSE "None"

\* the record of one dataset operation: its arguments, whether the server
\* accepted the request, and the snapshot it started from
OpRecord(op, old_name, new_name, entry_names, specification_names, outcome, d, ri) ==
    [valid |-> TRUE, op |-> op, old_name |-> old_name, new_name |-> new_name,
     entry_names |-> entry_names, specification_names |-> specification_names,
     outcome |-> outcome, specsBefore |-> d, itemsBefore |-> ri]

NoOp ==
    [valid |-> FALSE, op |-> "", old_name |-> "", new_name |-> "", entry_names |-> <<>>,
     specification_names |-> <<>>, outcome |-> "", specsBefore |-> <<>>, itemsBefore |-> NoItems]

\* what _auto_request does with a request of a dataset: the server accepts it,
\* or the request raises
RequestOutcomes == {"returned", "raised"}

\* ------------------------------------- the rest of the snapshot and its methods
\* longest dataset name, in characters
MaxName == 2

\* one element of raw_data.entries; the methods read its name as x.name
\* (fetch_entries) and as x.entry_name (rename_entries, delete_entries)
EntryObj(name) == [name |-> name]

\* an Optional list of entry names: None, or every name at most once
EntryNameLists ==
    {NoItems} \cup {ItemList(s) : s \in {t \in SeqUpTo(EntryNames, Cardinality(EntryNames)) :
                                            NoDuplicates(t)}}

\* the entries that go with a list of entry names
EntriesOf(names) == ItemList([i \in DOMAIN names.items |-> EntryObj(names.items[i])])

EmptyMap == [k \in {} |-> ""]

\* m.get(x, x)
MapGet(m, x) == IF x \in DOMAIN m THEN m[x] ELSE x

\* the record items after delete_specification
ItemsWithoutSpecification(ri, name) ==
    IF Truthy(ri) THEN ItemList(SelectSeq(ri.items, LAMBDA x : x.specification_name # name)) ELSE ri

\* the entry names after delete_entries
NamesWithout(en, names) ==
    IF Truthy(en) THEN ItemList(SelectSeq(en.items, LAMBDA x : x \notin Range(names))) ELSE en

\* the entries after delete_entries
EntriesWithout(es, names) ==
    IF Truthy(es) THEN ItemList(SelectSeq(es.items, LAMBDA x : x.name \notin Range(names))) ELSE es

\* a variant of delete_entries that leaves the record items alone
ItemsWithoutEntriesKept(ri, names) == ri

\* the record items after delete_entries
ItemsWithoutEntries(ri, names) ==
    IF Truthy(ri) THEN ItemList(SelectSeq(ri.items, LAMBDA x : x.entry_name \notin Range(names))) ELSE ri

\* a variant of rename_entries that renames one key after the other, each on
\* the result of the one before
RECURSIVE RenamedNamesInTurn(_, _)
RenamedNamesInTurn(en, m) ==
    IF DOMAIN m = {} \/ ~Truthy(en) THEN en
    ELSE LET k == CHOOSE x \in DOMAIN m : TRUE
             rest == [x \in DOMAIN m \ {k} |-> m[x]]
         IN RenamedNamesInTurn(ItemList([i \in DOMAIN en.items |->
                                            IF en.items[i] = k THEN m[k] ELSE en.items[i]]), rest)

\* the entry names after rename_entries: [m.get(x, x) for x in entry_names]
RenamedNames(en, m) ==
    IF Truthy(en) THEN ItemList([i \in DOMAIN en.items |-> MapGet(m, en.items[i])]) ELSE en

\* the entries after rename_entries
RenamedEntries(es, m) ==
    IF Truthy(es) THEN ItemList([i \in DOMAIN es.items |-> EntryObj(MapGet(m, es.items[i].name))])
    ELSE es

\* the record items after rename_entries
ItemsWithRenamedEntries(ri, m) ==
    IF Truthy(ri)
    THEN ItemList([i \in DOMAIN ri.items |-> [ri.items[i] EXCEPT !.entry_name = MapGet(m, @)]])
    ELSE ri

\* the item the server sends for a pair in the k-th download: its record is
\* the server's at that time
FetchedItem(e, n, k) ==
    RecordItem(e, n, (IF k = 1 THEN "fetched record of " ELSE "refetched record of ") \o e \o " " \o n)

\* the answers of the server to a bulkFetch of record items: at most MaxItems
\* items, no two for one (entry, specification) pair
FetchedItemLists(k) ==
    {[i \in DOMAIN s |-> FetchedItem(PairItem(s[i]).entry_name, PairItem(s[i]).specification_name, k)] :
        s \in {t \in SeqUpTo(1..PairCount, MaxItems) :
                  \A i, j \in DOMAIN t : i < j => t[i] < t[j]}}

\* (x.specification_name, x.entry_name)
PairOf(x) == <<x.specification_name, x.entry_name>>

\* a variant of the merge that appends what was downloaded and removes nothing
MergedRecordItemsAppended(ri, record_info) ==
    IF ri.none THEN ItemList(record_info) ELSE ItemList(ri.items \o record_info)

\* lines 148-159: record_items after a download; the items of the pairs just
\* downloaded are removed, then the downloaded items are appended
MergedRecordItems(ri, record_info) ==
    IF ri.none THEN ItemList(record_info)
    ELSE LET new_info == {PairOf(record_info[i]) : i \in DOMAIN record_info}
         IN ItemList(SelectSeq(ri.items, LAMBDA x : PairOf(x) \notin new_info) \o record_info)

\* a variant of get_record that downloads whatever the lookup found
NeedsFetchAlways(r) == TRUE

\* line 200: if r is None
NeedsFetch(r) == r = "None"

\* new_name.lower(): every "A" becomes "a"
Lower(s) == [i \in DOMAIN s |-> IF s[i] = "A" THEN "a" ELSE s[i]]

\* the names a dataset can be given: MaxName letters at most, each the letter
\* a in lower or in upper case
DatasetNames == SeqUpTo({"a", "A"}, MaxName) \ {<<>>}

\* the descriptions a dataset can be given; None is one of them
Descriptions == {"None", "first description", "second description"}

\* a variant of the extend that decides what is new before it appends
ExtendNewAtOnce(en, names) == en \o SelectSeq(names, LAMBDA x : x \notin Range(en))

\* lines 75, 102: entry_names.extend(x for x in names if x not in entry_names);
\* extend draws from the generator one name at a time, so each test sees the
\* names appended before it
RECURSIVE ExtendNew(_, _)
ExtendNew(en, names) ==
    IF names = <<>> THEN en
    ELSE ExtendNew(IF Head(names) \in Range(en) THEN en ELSE Append(en, Head(names)), Tail(names))

\* the inverse of an injective map
Inverse(m) == [y \in {m[x] : x \in DOMAIN m} |-> CHOOSE x \in DOMAIN m : m[x] = y]

\* the specifications with every name, in the order of the names
FullSpecDict ==
    [i \in 1..Cardinality(SpecNames) |->
        SpecItem("spec" \o ToString(i), "value of " \o "spec" \o ToString(i))]

\* a variant in which the local snapshot is changed whatever the request did
AppliedLocallyAlways(outcome) == TRUE

\* the local snapshot is changed after the request, so only when it returned
AppliedLocally(outcome) == outcome = "returned"

\* the error of a request the server did not accept
RequestError == "RequestError"

\* ------------------------------------------------------------------ the state
VARIABLES
    remote,     \* the identities the remote source has
    store,      \* the key-value store: kind -> (identity -> entity)
    last,       \* the record of the latest _get_with_cache call
    prev,       \* the call before it, when the latest call asked for the same
                \* identities with the same options
    api_limits, \* the limits the server advertised: operation -> number
    acc,        \* the record of the latest get or query accessor call
    accPrev,    \* the accessor call before it, when the latest call repeats it
    specifications, \* a dataset's raw_data.specifications, in dict order
    record_items,   \* a dataset's raw_data.record_items
    dsLast,     \* the record of the latest operation on the dataset
    entry_names,    \* a dataset's raw_data.entry_names
    entries,        \* a dataset's raw_data.entries
    metadata,       \* a dataset's raw_data.name, lname and description
    dsCall      \* more of the latest operation: its requests, its error, its
                \* return value and the rest of the snapshot before it

cacheVars == <<remote, store, last, prev>>

accVars == <<api_limits, acc, accPrev>>

dsVars == <<specifications, record_items, dsLast, entry_names, entries, metadata, dsCall>>

vars == <<remote, store, last, prev, api_limits, acc, accPrev, specifications, record_items, dsLast,
          entry_names, entries, metadata, dsCall>>

\* the name, lname and description of a dataset that has not been loaded
NoMetadata == [name |-> <<>>, lname |-> <<>>, description |-> "None"]

\* what dsCall keeps of an operation, with the entry names, entries and
\* metadata the operation started from
OpInfo(name_map, requests, error, ret, response) ==
    [name_map |-> name_map, requests |-> requests, error |-> error, ret |-> ret,
     response |-> response, entryNamesBefore |-> entry_names, entriesBefore |-> entries,
     metadataBefore |-> metadata]

NoInfo ==
    [name_map |-> EmptyMap, requests |-> 0, error |-> "", ret |-> "None", response |-> <<>>,
     entryNamesBefore |-> NoItems, entriesBefore |-> NoItems, metadataBefore |-> NoMetadata]

\* one request was sent; it returned, or it raised and the error went on to
\* the caller
OneRequest(outcome) ==
    OpInfo(EmptyMap, 1, IF outcome = "raised" THEN RequestError ELSE "", "None", <<>>)

\* the entry names, entries and metadata are parked
NoEntryData ==
    /\ entry_names = NoItems
    /\ entries = NoItems
    /\ metadata = NoMetadata
    /\ dsCall = NoInfo

\* no accessor has been called; the server advertised its largest limits
AccIdle ==
    /\ api_limits = [k \in LimitKeys |-> MaxLimit]
    /\ acc = NoAcc
    /\ accPrev = NoAcc

\* no dataset has been loaded
NoDataset ==
    /\ specifications = <<>>
    /\ record_items = NoItems
    /\ dsLast = NoOp
    /\ NoEntryData

SameArgs(a, b) ==
    /\ a.valid /\ b.valid
    /\ make_str(a.id) = make_str(b.id)
    /\ a.missing_ok = b.missing_ok /\ a.kind = b.kind /\ a.include = b.include

Init ==
    /\ remote \in SUBSET StrIds
    /\ store = [k \in Kinds |-> EmptyDict]
    /\ last = NoCall
    /\ prev = NoCall
    /\ AccIdle
    /\ NoDataset

\* lines 183-241 as one step: the call runs to its return or raise
Call(id, missing_ok, kind, include, style) ==
    LET r == GetWithCache(store, remote, id, missing_ok, kind, include, style)
    IN /\ last' = r.call
       /\ store' = r.store
       /\ prev' = IF SameArgs(last, r.call) THEN last ELSE NoCall
       /\ UNCHANGED <<remote, accVars, dsVars>>

\* a call of _get_with_cache with any arguments and any reporting style of func
Resolve ==
    /\ ~last.valid
    /\ \E id \in IdArgs, missing_ok \in BOOLEAN, kind \in Kinds, include \in Includes, style \in FetchBehaviours :
          Call(id, missing_ok, kind, include, style)

\* the caller calls once more with the arguments of the call that just ended
ResolveAgain ==
    /\ last.valid /\ ~prev.valid
    /\ \E style \in FetchBehaviours :
          Call(last.id, last.missing_ok, last.kind, last.include, style)

\* the caller is done with the outcome of the latest call; the store stays
Done ==
    /\ last.valid
    /\ last' = NoCall
    /\ prev' = NoCall
    /\ UNCHANGED <<remote, store, accVars, dsVars>>

Next == Resolve \/ ResolveAgain \/ Done

Spec == Init /\ [][Next]_vars

\* a call whose identities are written as integers, as strings or as both
ResolveForms ==
    /\ ~last.valid
    /\ \E id \in MixedIdArgs, missing_ok \in BOOLEAN, kind \in Kinds, include \in Includes,
          style \in FetchBehaviours :
          Call(id, missing_ok, kind, include, style)

\* the caller asks again for the identities of the call that just ended,
\* written in another form
ResolveOtherForm ==
    /\ last.valid /\ ~prev.valid
    /\ \E id \in MixedIdArgs, style \in FetchBehaviours :
          /\ id # last.id
          /\ make_str(id) = make_str(last.id)
          /\ Call(id, last.missing_ok, last.kind, last.include, style)

NextForms == ResolveForms \/ ResolveOtherForm \/ Done

\* the calls of _get_with_cache with identities in integer and string form
SpecForms == Init /\ [][NextForms]_vars

\* the identities a failed call asked for and did get: those not named missing
FoundIds(c) == Range(make_str(c.id).items) \ c.missing

\* after a call failed with the not-found error, the caller asks for found
\* identities only, each once
ResolveFound ==
    /\ last.valid /\ ~prev.valid
    /\ last.raisedAt = 233
    /\ \E id \in IdArgs, style \in FetchBehaviours :
          /\ Len(id.items) > 0
          /\ NoDuplicates(id.items)
          /\ Range(make_str(id).items) \subseteq FoundIds(last)
          /\ LET r == GetWithCache(store, remote, id, last.missing_ok, last.kind, last.include, style)
             IN /\ last' = r.call
                /\ store' = r.store
                /\ prev' = last
                /\ UNCHANGED <<remote, accVars, dsVars>>

NextFound == Resolve \/ ResolveFound \/ Done

\* the calls of _get_with_cache, each failed call followed by a call for what
\* it found
SpecFound == Init /\ [][NextFound]_vars

\* ----------------------------------------------------- the accessors as steps
\* the client after construction, with the limits its server advertised
InitAcc ==
    /\ remote \in SUBSET StrIds
    /\ store = [k \in Kinds |-> EmptyDict]
    /\ last = NoCall
    /\ prev = NoCall
    /\ api_limits \in {[k \in LimitKeys |-> IF k = k0 THEN n ELSE m] :
                          k0 \in LimitKeys, n \in 1..MaxLimit, m \in 1..MaxLimit}
    /\ acc = NoAcc
    /\ accPrev = NoAcc
    /\ NoDataset

AccCall(r) ==
    /\ acc' = r
    /\ accPrev' = acc
    /\ UNCHANGED <<cacheVars, api_limits, dsVars>>

\* a call of a get accessor with any ids
Get ==
    /\ ~acc.valid
    /\ \E name \in GetAccessors, missing_ok \in BOOLEAN :
          \E arg \in AccArgs(name) : AccCall(GetById(name, arg, missing_ok, api_limits, remote))

\* the caller calls the same get accessor once more for the same ids
GetAgain ==
    /\ acc.valid /\ ~accPrev.valid
    /\ acc.name \in GetAccessors
    /\ AccCall(GetById(acc.name, acc.arg, acc.missing_ok, api_limits, remote))

\* a call of a query method with or without a limit
Query ==
    /\ ~acc.valid
    /\ \E method \in QueryMethods, limit \in {NoLimit} \cup {GivenLimit(n) : n \in 0..(MaxLimit + 1)} :
          AccCall(QueryWithLimit(method, limit, api_limits))

\* the caller is done with the outcome of the latest accessor call
AccDone ==
    /\ acc.valid
    /\ acc' = NoAcc
    /\ accPrev' = NoAcc
    /\ UNCHANGED <<cacheVars, api_limits, dsVars>>

NextAcc == Get \/ GetAgain \/ Query \/ AccDone

\* the calls of the get and query accessors
SpecAcc == InitAcc /\ [][NextAcc]_vars

\* ------------------------------------------------ the dataset methods as steps
\* a dataset object after construction, with the snapshot the server sent
InitDS ==
    /\ remote = {}
    /\ store = [k \in Kinds |-> EmptyDict]
    /\ last = NoCall
    /\ prev = NoCall
    /\ AccIdle
    /\ specifications \in SpecDicts
    /\ record_items \in RecordItemLists
    /\ dsLast = NoOp
    /\ NoEntryData

\* rename_specification: the request first; only when it returned are the
\* local specifications and record items renamed
RenameSpecification(old_name, new_name, outcome) ==
    /\ dsLast' = OpRecord("rename_specification", old_name, new_name, <<>>, <<>>, outcome,
                          specifications, record_items)
    /\ dsCall' = OneRequest(outcome)
    /\ IF AppliedLocally(outcome)
       THEN /\ specifications' = RenamedSpecifications(specifications, old_name, new_name)
            /\ record_items' = RenamedRecordItems(record_items, old_name, new_name)
       ELSE UNCHANGED <<specifications, record_items>>
    /\ UNCHANGED <<entry_names, entries, metadata, cacheVars, accVars>>

\* delete_record_items: the request, and nothing else
DeleteRecordItems(names, specification_names, outcome) ==
    /\ dsLast' = OpRecord("delete_record_items", "", "", names, specification_names,
                          outcome, specifications, record_items)
    /\ dsCall' = OneRequest(outcome)
    /\ UNCHANGED <<specifications, record_items, entry_names, entries, metadata, cacheVars, accVars>>

Rename ==
    /\ ~dsLast.valid
    /\ \E old_name \in SpecNames, new_name \in SpecNames, outcome \in RequestOutcomes :
          RenameSpecification(old_name, new_name, outcome)

DeleteItems ==
    /\ ~dsLast.valid
    /\ \E names \in NameLists(EntryNames), specification_names \in NameLists(SpecNames),
          outcome \in RequestOutcomes :
          DeleteRecordItems(names, specification_names, outcome)

\* the caller is done with the outcome of the latest dataset operation
DSDone ==
    /\ dsLast.valid
    /\ dsLast' = NoOp
    /\ dsCall' = NoInfo
    /\ UNCHANGED <<specifications, record_items, entry_names, entries, metadata, cacheVars, accVars>>

NextDS == Rename \/ DeleteItems \/ DSDone

\* the methods of a dataset that change its local snapshot
SpecDS == InitDS /\ [][NextDS]_vars

\* ---------------------------------- renames and deletes on a fuller snapshot
\* a dataset whose specifications and record items are any, the entry names
\* not fetched; or whose entry names, entries and record items are any
InitMirror ==
    /\ remote = {}
    /\ store = [k \in Kinds |-> EmptyDict]
    /\ last = NoCall
    /\ prev = NoCall
    /\ AccIdle
    /\ record_items \in RecordItemLists
    /\ \/ /\ specifications \in SpecDicts
          /\ entry_names = NoItems
          /\ entries = NoItems
       \/ /\ specifications = FullSpecDict
          /\ entry_names \in EntryNameLists
          /\ entries \in {NoItems, EntriesOf(entry_names)}
    /\ metadata = NoMetadata
    /\ dsLast = NoOp
    /\ dsCall = NoInfo

\* delete_specification: the request, then the name is popped from the
\* specifications and its record items are dropped
DeleteSpecification ==
    /\ ~dsLast.valid
    /\ \E name \in SpecNames, outcome \in RequestOutcomes :
          /\ dsLast' = OpRecord("delete_specification", name, "", <<>>, <<>>, outcome,
                                specifications, record_items)
          /\ dsCall' = OneRequest(outcome)
          /\ IF AppliedLocally(outcome)
             THEN /\ specifications' = SelectSeq(specifications, LAMBDA it : it.name # name)
                  /\ record_items' = ItemsWithoutSpecification(record_items, name)
             ELSE UNCHANGED <<specifications, record_items>>
          /\ UNCHANGED <<entry_names, entries, metadata, cacheVars, accVars>>

\* delete_entries: the request, then the names are dropped from the entry
\* names, the entries and the record items
DeleteEntries ==
    /\ ~dsLast.valid
    /\ \E names \in NameLists(EntryNames), outcome \in RequestOutcomes :
          /\ dsLast' = OpRecord("delete_entries", "", "", names, <<>>, outcome,
                                specifications, record_items)
          /\ dsCall' = OneRequest(outcome)
          /\ IF AppliedLocally(outcome)
             THEN /\ entry_names' = NamesWithout(entry_names, names)
                  /\ entries' = EntriesWithout(entries, names)
                  /\ record_items' = ItemsWithoutEntries(record_items, names)
             ELSE UNCHANGED <<entry_names, entries, record_items>>
          /\ UNCHANGED <<specifications, metadata, cacheVars, accVars>>

\* rename_entries: the request, then the map is applied to the entry names,
\* the entries and the record items
RenameEntries(op, m, outcome, d, ri, info) ==
    /\ dsLast' = OpRecord(op, "", "", <<>>, <<>>, outcome, d, ri)
    /\ dsCall' = [info EXCEPT !.name_map = m,
                              !.error = IF outcome = "raised" THEN RequestError ELSE ""]
    /\ IF AppliedLocally(outcome)
       THEN /\ entry_names' = RenamedNames(entry_names, m)
            /\ entries' = RenamedEntries(entries, m)
            /\ record_items' = ItemsWithRenamedEntries(record_items, m)
       ELSE UNCHANGED <<entry_names, entries, record_items>>
    /\ UNCHANGED <<specifications, metadata, cacheVars, accVars>>

RenameSpec ==
    /\ ~dsLast.valid
    /\ \E old_name \in SpecNames, new_name \in SpecNames, outcome \in RequestOutcomes :
          RenameSpecification(old_name, new_name, outcome)

RenameNames ==
    /\ ~dsLast.valid
    /\ \E m \in UNION {[D -> EntryNames] : D \in SUBSET EntryNames}, outcome \in RequestOutcomes :
          RenameEntries("rename_entries", m, outcome, specifications, record_items,
                        OneRequest(outcome))

\* after a rename with an injective map was accepted, the caller renames with
\* the inverse map; the record keeps the snapshot from before the first rename
RenameNamesBack ==
    /\ dsLast.valid /\ dsLast.op = "rename_entries" /\ dsLast.outcome = "returned"
    /\ \A x, y \in DOMAIN dsCall.name_map : dsCall.name_map[x] = dsCall.name_map[y] => x = y
    /\ \E outcome \in RequestOutcomes :
          RenameEntries("rename_entries_back", Inverse(dsCall.name_map), outcome,
                        dsLast.specsBefore, dsLast.itemsBefore,
                        [dsCall EXCEPT !.requests = 2])

NextMirror == RenameSpec \/ DeleteSpecification \/ DeleteEntries \/ RenameNames \/ RenameNamesBack

\* one rename or delete on any snapshot of a dataset, a rename of entries also
\* followed by the rename that undoes it
SpecMirror == InitMirror /\ [][NextMirror]_vars

\* ------------------------------------------------ downloads of record items
\* a dataset with any record items
InitItems ==
    /\ remote = {}
    /\ store = [k \in Kinds |-> EmptyDict]
    /\ last = NoCall
    /\ prev = NoCall
    /\ AccIdle
    /\ specifications = FullSpecDict
    /\ record_items \in RecordItemLists
    /\ dsLast = NoOp
    /\ NoEntryData

\* fetch_record_items: the request, then the merge of what it returned
FetchRecordItems(record_info, outcome, requests) ==
    /\ dsLast' = OpRecord("fetch_record_items", "", "", <<>>, <<>>, outcome,
                          specifications, record_items)
    /\ dsCall' = OpInfo(EmptyMap, requests, IF outcome = "raised" THEN RequestError ELSE "",
                        "None", IF outcome = "raised" THEN <<>> ELSE record_info)
    /\ record_items' = IF outcome = "raised" THEN record_items
                       ELSE MergedRecordItems(record_items, record_info)
    /\ UNCHANGED <<specifications, entry_names, entries, metadata, cacheVars, accVars>>

\* get_record for any pair: a lookup, a download of the pair if the lookup
\* found nothing, and a second lookup; the server has an item for the pair or
\* has none
GetRecord ==
    /\ ~dsLast.valid
    /\ \E entry_name \in EntryNames, specification_name \in SpecNames,
          outcome \in RequestOutcomes :
       \E record_info \in {<<>>, <<FetchedItem(entry_name, specification_name, 1)>>} :
          LET r == LookupRecord(record_items, entry_name, specification_name)
              fetched == NeedsFetch(r)
              raised == fetched /\ outcome = "raised"
              after == IF fetched /\ ~raised THEN MergedRecordItems(record_items, record_info)
                       ELSE record_items
          IN /\ dsLast' = OpRecord("get_record", "", "", <<entry_name>>, <<specification_name>>,
                                   IF raised THEN "raised" ELSE "returned", specifications, record_items)
             /\ dsCall' = OpInfo(EmptyMap, IF fetched THEN 1 ELSE 0,
                                 IF raised THEN RequestError ELSE "",
                                 IF raised THEN "None"
                                 ELSE LookupRecord(after, entry_name, specification_name),
                                 IF fetched /\ ~raised THEN record_info ELSE <<>>)
             /\ record_items' = after
             /\ UNCHANGED <<specifications, entry_names, entries, metadata, cacheVars, accVars>>

\* a download of record items for any names
FetchItems ==
    /\ ~dsLast.valid
    /\ \E record_info \in FetchedItemLists(1), outcome \in RequestOutcomes :
          FetchRecordItems(record_info, outcome, 1)

\* a second download right after the first download of a dataset that had
\* no record items loaded
FetchItemsAgain ==
    /\ dsLast.valid /\ dsLast.op = "fetch_record_items" /\ dsCall.requests = 1
    /\ dsLast.outcome = "returned" /\ dsLast.itemsBefore.none
    /\ \E record_info \in FetchedItemLists(2), outcome \in RequestOutcomes :
          FetchRecordItems(record_info, outcome, 2)

NextItems == FetchItems \/ FetchItemsAgain \/ GetRecord

\* downloads of record items into any snapshot
SpecItems == InitItems /\ [][NextItems]_vars

\* ------------------------------------------------------ metadata of a dataset
\* a dataset as the server sent it, lname being the name in lower case;
\* nothing else is loaded
InitMeta ==
    /\ remote = {}
    /\ store = [k \in Kinds |-> EmptyDict]
    /\ last = NoCall
    /\ prev = NoCall
    /\ AccIdle
    /\ specifications = <<>>
    /\ record_items = NoItems
    /\ dsLast = NoOp
    /\ entry_names = NoItems
    /\ entries = NoItems
    /\ dsCall = NoInfo
    /\ metadata \in {[name |-> n, lname |-> Lower(n), description |-> d] :
                        n \in DatasetNames, d \in Descriptions}

\* set_name: name and lname are assigned, then the request is sent; when it
\* raises, name is assigned its old value and the error goes on
SetName ==
    /\ ~dsLast.valid
    /\ \E new_name \in DatasetNames, outcome \in RequestOutcomes :
          /\ dsLast' = OpRecord("set_name", "", "", <<>>, <<>>, outcome, specifications, record_items)
          /\ dsCall' = OpInfo(EmptyMap, 1, IF outcome = "raised" THEN RequestError ELSE "", "None", <<>>)
          /\ metadata' = [metadata EXCEPT
                             !.name = IF outcome = "raised" THEN metadata.name ELSE new_name,
                             !.lname = Lower(new_name)]
          /\ UNCHANGED <<specifications, record_items, entry_names, entries, cacheVars, accVars>>

\* set_description: description is assigned, then the request is sent; when
\* it raises, the handler assigns raw_data.old_description, which is no field:
\* with extra = Extra.forbid and validate_assignment = True (lines 16-18) the
\* assignment raises ValueError before the bare raise is reached
SetDescription ==
    /\ ~dsLast.valid
    /\ \E new_description \in Descriptions, outcome \in RequestOutcomes :
          /\ dsLast' = OpRecord("set_description", "", "", <<>>, <<>>, outcome,
                                specifications, record_items)
          /\ dsCall' = OpInfo(EmptyMap, 1, IF outcome = "raised" THEN "ValueError" ELSE "",
                              "None", <<>>)
          /\ metadata' = [metadata EXCEPT !.description = new_description]
          /\ UNCHANGED <<specifications, record_items, entry_names, entries, cacheVars, accVars>>

NextMeta == SetName \/ SetDescription \/ DSDone

\* any sequence of set_name and set_description calls
SpecMeta == InitMeta /\ [][NextMeta]_vars

\* ------------------------------------------------------ growth of entry_names
\* a dataset with any entry names, its entries loaded or not
InitEntries ==
    /\ remote = {}
    /\ store = [k \in Kinds |-> EmptyDict]
    /\ last = NoCall
    /\ prev = NoCall
    /\ AccIdle
    /\ specifications = FullSpecDict
    /\ record_items = NoItems
    /\ dsLast = NoOp
    /\ dsCall = NoInfo
    /\ metadata = NoMetadata
    /\ entry_names \in EntryNameLists
    /\ entries \in {NoItems, EntriesOf(entry_names)}

\* _post_add_entries, that is _append_entry_names, with any list of names,
\* repeated or not: no request
AppendEntryNames ==
    /\ ~dsLast.valid
    /\ \E names \in SeqUpTo(EntryNames, MaxLen) :
          /\ dsLast' = OpRecord("_append_entry_names", "", "", names, <<>>, "returned",
                                specifications, record_items)
          /\ dsCall' = OpInfo(EmptyMap, 0, "", "None", <<>>)
          /\ entry_names' = ItemList(ExtendNew(IF entry_names.none THEN <<>> ELSE entry_names.items, names))
          /\ UNCHANGED <<specifications, record_items, entries, metadata, cacheVars, accVars>>

\* fetch_entries: the response, entries of any names, replaces entries, and
\* its names are taken as entry_names (None before) or appended to them
FetchEntries ==
    /\ ~dsLast.valid
    /\ \E fetched_names \in SeqUpTo(EntryNames, MaxLen), outcome \in RequestOutcomes :
          /\ dsLast' = OpRecord("fetch_entries", "", "", <<>>, <<>>, outcome,
                                specifications, record_items)
          /\ dsCall' = OpInfo(EmptyMap, 1, IF outcome = "raised" THEN RequestError ELSE "", "None",
                              IF outcome = "raised" THEN <<>> ELSE fetched_names)
          /\ entries' = IF outcome = "raised" THEN entries
                        ELSE ItemList([i \in DOMAIN fetched_names |-> EntryObj(fetched_names[i])])
          /\ entry_names' = IF outcome = "raised" THEN entry_names
                            ELSE IF entry_names.none THEN ItemList(fetched_names)
                            ELSE ItemList(ExtendNew(entry_names.items, fetched_names))
          /\ UNCHANGED <<specifications, record_items, metadata, cacheVars, accVars>>

NextEntries == AppendEntryNames \/ FetchEntries

\* one growth of entry_names from any snapshot
SpecEntries == InitEntries /\ [][NextEntries]_vars

\* ------------------------------------------------------ reading a call record
\* the requested identities in canonical form, as a set
ReqIds(c) == Range(make_str(c.id).items)

\* the i-th requested identity in canonical form
ReqId(c, i) == make_str(c.id).items[i]

\* the identities the store held for the call's kind when the call began
CachedBefore(c) == DOMAIN c.storeBefore[c.kind]

Unfiltered(c) == ~c.include.given

\* the value the caller is owed for identity sid: the cached entity when the
\* store is consulted and has it, else the remote entity, else None
Owed(c, sid) ==
    IF Unfiltered(c) /\ sid \in CachedBefore(c) THEN c.storeBefore[c.kind][sid]
    ELSE IF sid \in remote THEN Entity(c.kind, sid, Unfiltered(c))
    ELSE None

\* ------------------------------------------------------------------ claims

\* C1: an unfiltered call whose requested identities are all in the store for
\* its kind never invokes the remote fetch function, whatever the input shape
\* and also when the list repeats an identity.
C1_ZeroRemoteOnFullHit ==
    (last.valid /\ Unfiltered(last) /\ ReqIds(last) \subseteq CachedBefore(last))
        => last.fetches = <<>>

\* C2: a call with a list that returns normally returns a list of the same
\* length whose i-th element is the value owed for the i-th requested identity,
\* whether it came from the store or from the fetch.
C2_OrderPreserved ==
    (last.valid /\ last.id.shape = "list" /\ last.outcome = "returned") =>
        /\ last.shape = "list"
        /\ Len(last.items) = Len(last.id.items)
        /\ \A i \in DOMAIN last.id.items : last.items[i] = Owed(last, ReqId(last, i))

\* C2 witness: a returned list of three with a repeated identity, where one
\* identity was served from the store and another one was fetched
C2_Witness ==
    /\ last.valid /\ last.id.shape = "list" /\ last.outcome = "returned"
    /\ Unfiltered(last) /\ Len(last.items) = 3 /\ ~NoDuplicates(make_str(last.id).items)
    /\ \E i, j \in DOMAIN last.id.items :
          /\ ReqId(last, i) \in CachedBefore(last)
          /\ ReqId(last, j) \notin CachedBefore(last)
          /\ last.items[j].tag = "Entity"
          /\ i < j

\* C3: with missing_ok false, a call that requests an identity that is neither
\* in the store nor at the remote source fails with the not-found error,
\* however the fetch function reports the absence (a fetch function that
\* raises is another matter, see C13).
C3_MissingNotOkFails ==
    (/\ last.valid /\ ~last.missing_ok /\ last.raisedAt # 220
     /\ \E sid \in ReqIds(last) : sid \notin CachedBefore(last) /\ sid \notin remote)
        => (last.outcome = "raised" /\ last.raisedAt = 233)

\* C4: with missing_ok true a call with a list (or a single identity) never
\* fails for unresolved identities (only an error of func ends it); its output holds None exactly at the positions of identities that are
\* neither cached nor found remotely and the identity's entity everywhere else.
C4_MissingOkAbsentMarkers ==
    (last.valid /\ last.missing_ok /\ last.id.shape \in {"list", "scalar"} /\ last.raisedAt # 220) =>
        /\ last.outcome = "returned"
        /\ Len(last.items) = Len(last.id.items)
        /\ \A i \in DOMAIN last.id.items :
              LET sid == ReqId(last, i)
              IN IF sid \notin CachedBefore(last) /\ sid \notin remote
                 THEN last.items[i] = None
                 ELSE last.items[i].tag = "Entity" /\ last.items[i].id = sid

\* C4 witness: a list of three returned as entity, None, entity
C4_Witness ==
    /\ last.valid /\ last.missing_ok /\ last.id.shape = "list"
    /\ last.outcome = "returned" /\ Len(last.items) = 3
    /\ last.items[1].tag = "Entity" /\ last.items[2] = None /\ last.items[3].tag = "Entity"

\* C5: a call with a field filter and at least one identity invokes the fetch
\* function (once) even if everything requested is cached, makes no get and no
\* put on the store, and leaves the store's contents as they were.
C5_FilterBypassesCache ==
    (last.valid /\ last.include.given /\ Len(last.id.items) >= 1) =>
        /\ Len(last.fetches) = 1
        /\ last.gets = <<>>
        /\ last.puts = <<>>
        /\ store = last.storeBefore

\* C5 witness: a filtered call, all of whose identities were in the store
C5_Witness ==
    /\ last.valid /\ last.include.given /\ Len(last.id.items) >= 2
    /\ ReqIds(last) \subseteq CachedBefore(last)
    /\ Len(last.fetches) = 1

\* C6: a single identity yields a single value; a list or a tuple of
\* identities yields a sequence with one element per requested identity, on
\* the full-hit path and on the fetch path (a call fails only for not-found
\* or with the error of func).
C6_ShapePreserved ==
    last.valid =>
        /\ last.outcome = "raised" => last.raisedAt \in {233, 220}
        /\ last.outcome = "returned" =>
              IF last.id.shape = "scalar"
              THEN last.shape = "scalar"
              ELSE last.shape = "list" /\ Len(last.items) = Len(last.id.items)

C8_DuplicatesWorkedOnce ==
    (/\ last.valid /\ last.id.shape = "list" /\ ~NoDuplicates(make_str(last.id).items)
     /\ ReqIds(last) \cap CachedBefore(last) = {}) =>
        /\ Len(last.fetches) = 1
        /\ NoDuplicates(last.fetches[1].ids)
        /\ Range(last.fetches[1].ids) = ReqIds(last)
        /\ last.outcome = "returned" => Len(last.items) = Len(last.id.items)

\* C9: a call in which some requested identity is not served from the store
\* invokes the fetch function exactly once, with exactly the requested
\* identities not found in the store (all of them under a field filter).
C9_OneFetchOfTheMisses ==
    (/\ last.valid
     /\ \E sid \in ReqIds(last) : last.include.given \/ sid \notin CachedBefore(last)) =>
        /\ Len(last.fetches) = 1
        /\ Range(last.fetches[1].ids) =
              IF last.include.given THEN ReqIds(last) ELSE ReqIds(last) \ CachedBefore(last)

\* the first of two consecutive unfiltered calls with one non-empty list of
\* distinct identities that all exist remotely and were not cached, func
\* answering
FirstOfTwo(c) ==
    /\ c.valid /\ Unfiltered(c) /\ c.id.shape = "list" /\ c.raisedAt # 220
    /\ c.id.items # <<>> /\ NoDuplicates(make_str(c.id).items)
    /\ ReqIds(c) \subseteq remote
    /\ ReqIds(c) \cap CachedBefore(c) = {}

\* C10: two consecutive unfiltered calls with the same list of distinct,
\* remotely existing, initially uncached identities fetch exactly once in
\* total; the second call is served from the store and returns what the first
\* returned.
C10_IdempotentRefetch ==
    FirstOfTwo(prev) =>
        /\ Len(prev.fetches) + Len(last.fetches) = 1
        /\ last.fetches = <<>>
        /\ prev.outcome = "returned" /\ last.outcome = "returned"
        /\ last.items = prev.items

\* C10 witness: the second call of such a pair, for two identities
C10_Witness ==
    /\ FirstOfTwo(prev) /\ Len(prev.id.items) = 2
    /\ last.valid /\ last.outcome = "returned" /\ Len(last.items) = 2

\* C11: the store never holds an entry for an identity the remote source does
\* not have (nor a None value), and an unfiltered call that requests such an
\* identity always hands it to the fetch function again.
C11_AbsenceNeverCached ==
    /\ \A k \in Kinds : \A sid \in DOMAIN store[k] :
          sid \in remote /\ store[k][sid].tag = "Entity"
    /\ (last.valid /\ Unfiltered(last)) =>
          \A sid \in ReqIds(last) \ remote :
              Len(last.fetches) = 1 /\ sid \in Range(last.fetches[1].ids)

\* C11 witness: the second of two calls that ask for an absent identity, the
\* first of which was answered with a None entry for it; it is fetched again
C11_Witness ==
    /\ prev.valid /\ Unfiltered(prev) /\ prev.style = "none" /\ prev.outcome = "returned"
    /\ last.valid /\ last.fetches # <<>>
    /\ \E sid \in ReqIds(last) \ remote :
          /\ sid \in Range(prev.fetches[1].ids)
          /\ sid \in Range(last.fetches[1].ids)
    /\ ReqIds(last) \cap remote # {}

\* C12: when a call fails with the not-found error, the identities the error
\* names are all the requested identities that are neither served from the
\* store nor found by the fetch.
C12_ErrorNamesAllMissing ==
    (last.valid /\ last.outcome = "raised" /\ last.raisedAt = 233) =>
        /\ last.error = "KeyError"
        /\ last.missing =
              {sid \in ReqIds(last) :
                  /\ ~(Unfiltered(last) /\ sid \in CachedBefore(last))
                  /\ sid \notin remote}
        /\ last.missing # {}

\* C12 witness: a not-found failure with two missing identities
C12_Witness ==
    /\ last.valid /\ last.outcome = "raised" /\ last.raisedAt = 233
    /\ Cardinality(last.missing) >= 2

\* C13: when func raises, the call fails with that same error, func was
\* invoked exactly once and the store is as it was before the call.
C13_FetchErrorPassesThrough ==
    (last.valid /\ FetchRaises(last.style) /\ last.fetches # <<>>) =>
        /\ last.outcome = "raised" /\ last.error = FetchError
        /\ Len(last.fetches) = 1
        /\ last.puts = <<>>
        /\ store = last.storeBefore

\* C13 witness: an unfiltered call on a filled store, part of whose identities
\* had to be fetched, ended by the error of func
C13_Witness ==
    /\ last.valid /\ last.outcome = "raised" /\ last.error = FetchError
    /\ Unfiltered(last)
    /\ ReqIds(last) \cap CachedBefore(last) # {}
    /\ ReqIds(last) \ CachedBefore(last) # {}

\* a call for one identity, written as a string (asStr) or as an integer
OneIdentity(c, asStr) ==
    /\ c.valid /\ Len(c.id.items) = 1 /\ c.id.items[1].isint = ~asStr

\* C15: an identity written as an integer and the same identity written as its
\* string address one store entry: after an unfiltered call for the integer n
\* succeeded, the call for the string of n is served from the store without a
\* fetch and returns the same entity; a list holding both forms asks for one
\* identity, fetches (if at all) that one identity and returns one entity twice.
C15_IdentityNormalized ==
    /\ (/\ OneIdentity(prev, FALSE) /\ OneIdentity(last, TRUE)
        /\ Unfiltered(prev) /\ prev.outcome = "returned" /\ prev.items[1].tag = "Entity") =>
          /\ last.fetches = <<>>
          /\ last.outcome = "returned"
          /\ last.items = prev.items
    /\ (/\ last.valid /\ last.id.shape = "list" /\ Len(last.id.items) = 2
        /\ last.id.items[1].isint # last.id.items[2].isint
        /\ PyStr(last.id.items[1]) = PyStr(last.id.items[2])) =>
          /\ last.fetches # <<>> => Range(last.fetches[1].ids) = {PyStr(last.id.items[1])}
          /\ last.outcome = "returned" => last.items[1] = last.items[2]
          /\ DOMAIN store[last.kind] \ CachedBefore(last) \subseteq {PyStr(last.id.items[1])}

\* C15 witness: the call for the string "n" right after the call for the
\* integer n fetched the entity, answered from the store
C15_Witness ==
    /\ OneIdentity(prev, FALSE) /\ OneIdentity(last, TRUE)
    /\ Unfiltered(prev) /\ Len(prev.fetches) = 1 /\ prev.outcome = "returned"
    /\ last.outcome = "returned" /\ last.items[1].tag = "Entity"
    /\ last.id.shape = "scalar"

\* ------------------------------------------------- claims about the accessors
\* the latest call and the one before it are calls of one get accessor among
\* get_molecules, get_keywords and get_records for the same ids, and the
\* first of them fetched every one of its ids
FetchedBefore ==
    /\ acc.valid /\ accPrev.valid
    /\ acc.name \in {"get_molecules", "get_keywords", "get_records"}
    /\ accPrev.name = acc.name /\ accPrev.arg = acc.arg
    /\ accPrev.outcome = "returned" /\ Len(accPrev.requests) = 1
    /\ \A i \in DOMAIN accPrev.items : accPrev.items[i].tag = "Entity"

\* C14: get_molecules, get_keywords and get_records go through the identity
\* fetch cache: a call for ids that an earlier call of the same accessor
\* fetched successfully issues no remote request.
C14_AccessorsUseCache == FetchedBefore => acc.requests = <<>>

\* the key of api_limits that holds the limit of a bulk get operation
OperationLimitKey(name) ==
    CASE name = "get_molecules" -> "get_molecules"
      [] name = "get_keywords" -> "get_keywords"
      [] name = "get_managers" -> "get_managers"
      [] OTHER -> "get_records"

\* C16: every bulk get-by-id accessor called with more ids than the limit the
\* server advertises for the operation raises and issues no request; a call
\* with exactly the limit is sent.
C16_BulkGetLimitEnforced ==
    (acc.valid /\ acc.name \in GetAccessors) =>
        LET n == Len(acc.arg.items)
            limit == api_limits[OperationLimitKey(acc.name)]
        IN /\ n > limit => (acc.outcome = "raised" /\ acc.requests = <<>>)
           /\ n = limit => Len(acc.requests) = 1

\* C17: a query method sends min(limit, server limit) when the caller gave a
\* limit and no limit when the caller gave none; a limit not above the
\* server's is sent unchanged, and the request is issued in every case.
C17_QueryLimitClamped ==
    (acc.valid /\ acc.name \in QueryMethods) =>
        /\ Len(acc.requests) = 1
        /\ LET sent == acc.requests[1].limit
               server == api_limits[QueryLimitKey(acc.name)]
           IN /\ ~acc.limit.given => ~sent.given
              /\ acc.limit.given =>
                    /\ sent.given
                    /\ acc.limit.n <= server => sent.n = acc.limit.n
                    /\ acc.limit.n > server => sent.n = server

\* C17 witness: a query called with a limit above the server's sent the
\* server's limit
C17_Witness ==
    /\ acc.valid /\ acc.name \in QueryMethods
    /\ acc.limit.given /\ acc.limit.n > api_limits[QueryLimitKey(acc.name)]
    /\ Len(acc.requests) = 1
    /\ acc.requests[1].limit = GivenLimit(api_limits[QueryLimitKey(acc.name)])

\* C18: a get accessor returns a list when given a list and a single object
\* when given a single id or name; get_managers called with one name as a
\* plain string returns a single manager.
C18_ResultShape ==
    (acc.valid /\ acc.name \in GetAccessors /\ acc.outcome = "returned") =>
        /\ acc.arg.shape = "list" => acc.shape = "list"
        /\ acc.arg.shape = "scalar" => acc.shape = "single"

\* --------------------------------------------------- claims about the dataset
\* C19: after delete_record_items(entry_names, specification_names) succeeded
\* on the server, _lookup_record returns None for every pair of a deleted
\* entry name and a deleted specification name.
C19_DeleteRecordItemsMirrored ==
    (dsLast.valid /\ dsLast.op = "delete_record_items" /\ dsLast.outcome = "returned") =>
        \A e \in Range(dsLast.entry_names), s \in Range(dsLast.specification_names) :
            LookupRecord(record_items, e, s) = "None"

\* C20: after a successful rename_specification(old_name, new_name), for any
\* two names, the local specifications hold under new_name what was under
\* old_name, every other specification is still there under its own name with
\* its own value, and exactly the record items of old_name carry new_name.
C20_RenameSpecificationMirrored ==
    (dsLast.valid /\ dsLast.op = "rename_specification" /\ dsLast.outcome = "returned") =>
        LET before == dsLast.specsBefore
            items == dsLast.itemsBefore
        IN /\ SpecGet(before, dsLast.old_name) # "None" =>
                 SpecGet(specifications, dsLast.new_name) = SpecGet(before, dsLast.old_name)
           /\ \A n \in SpecNames \ {dsLast.old_name} :
                 SpecGet(before, n) # "None" => SpecGet(specifications, n) = SpecGet(before, n)
           /\ record_items.none = items.none
           /\ Len(record_items.items) = Len(items.items)
           /\ \A i \in DOMAIN items.items :
                 record_items.items[i] =
                    [items.items[i] EXCEPT !.specification_name =
                        IF @ = dsLast.old_name THEN dsLast.new_name ELSE @]


\* ------------------------------------- further claims about _get_with_cache
\* C23: when an unfiltered call fails with the not-found error, what the fetch
\* returned as cacheable is in the store already, and a following unfiltered
\* call for found identities only issues no remote fetch.
C23_NotFoundStillCaches ==
    /\ (last.valid /\ last.raisedAt = 233 /\ Unfiltered(last)) =>
          /\ Len(last.puts) = 1
          /\ \A sid \in DOMAIN last.puts[1] :
                sid \in DOMAIN store[last.kind] /\ store[last.kind][sid] = last.puts[1][sid]
    /\ (/\ prev.valid /\ prev.raisedAt = 233 /\ Unfiltered(prev)
        /\ last.valid /\ Unfiltered(last) /\ NoDuplicates(last.id.items)
        /\ ReqIds(last) \subseteq FoundIds(prev)) =>
          last.fetches = <<>>

\* C23 witness: a call that fetched an entity and failed for another identity
\* was followed by a call for the fetched one, answered from the store
C23_Witness ==
    /\ prev.valid /\ prev.raisedAt = 233 /\ Unfiltered(prev)
    /\ Len(prev.puts) = 1 /\ DOMAIN prev.puts[1] # {}
    /\ last.valid /\ ReqIds(last) \subseteq DOMAIN prev.puts[1] /\ ReqIds(last) # {}
    /\ last.fetches = <<>> /\ last.outcome = "returned"

\* C29: a call of _get_with_cache leaves its arguments as they were: the
\* caller's field-filter list holds after the call what it held before.
C29_ArgumentsNotModified ==
    last.valid => last.includeAfter = last.include


\* --------------------------------------- claims about renames and deletes
\* the elements of `before` that are not gone are what `after` holds, in the
\* order they had
KeepsOthersInOrder(before, after, gone) ==
    /\ \A i \in DOMAIN after : after[i] \notin gone
    /\ Len(after) = Cardinality({i \in DOMAIN before : before[i] \notin gone})
    /\ \A a \in DOMAIN before : before[a] \notin gone => \E i \in DOMAIN after : after[i] = before[a]
    /\ \A i, j \in DOMAIN after :
          i < j => \E a, b \in DOMAIN before : a < b /\ before[a] = after[i] /\ before[b] = after[j]

\* C21: after a successful delete_specification(name) or delete_entries(names)
\* the snapshot holds no reference to a deleted name, and every other
\* specification, entry name and record item is kept, in its original order.
C21_DeletesMirrored ==
    /\ (dsLast.valid /\ dsLast.op = "delete_specification" /\ dsLast.outcome = "returned") =>
          /\ SpecGet(specifications, dsLast.old_name) = "None"
          /\ KeepsOthersInOrder(dsLast.specsBefore, specifications,
                                {it \in Range(dsLast.specsBefore) \cup Range(specifications) :
                                    it.name = dsLast.old_name})
          /\ record_items.none = dsLast.itemsBefore.none
          /\ KeepsOthersInOrder(dsLast.itemsBefore.items, record_items.items,
                                {x \in Range(dsLast.itemsBefore.items) \cup Range(record_items.items) :
                                    x.specification_name = dsLast.old_name})
          /\ entry_names = dsCall.entryNamesBefore
    /\ (dsLast.valid /\ dsLast.op = "delete_entries" /\ dsLast.outcome = "returned") =>
          /\ entry_names.none = dsCall.entryNamesBefore.none
          /\ KeepsOthersInOrder(dsCall.entryNamesBefore.items, entry_names.items,
                                Range(dsLast.entry_names))
          /\ record_items.none = dsLast.itemsBefore.none
          /\ KeepsOthersInOrder(dsLast.itemsBefore.items, record_items.items,
                                {x \in Range(dsLast.itemsBefore.items) \cup Range(record_items.items) :
                                    x.entry_name \in Range(dsLast.entry_names)})
          /\ specifications = dsLast.specsBefore

\* C21 witness: delete_entries dropped one of two record items and one of the
\* entry names, and kept the others
C21_Witness ==
    /\ dsLast.valid /\ dsLast.op = "delete_entries" /\ dsLast.outcome = "returned"
    /\ Len(record_items.items) > 0
    /\ Len(record_items.items) < Len(dsLast.itemsBefore.items)
    /\ Len(entry_names.items) > 0
    /\ Len(entry_names.items) < Len(dsCall.entryNamesBefore.items)


\* C24: when the request of rename_specification, delete_specification,
\* rename_entries or delete_entries raises, the error reaches the caller and
\* the specifications, entry names, entries and record items are what they
\* were before the call.
C24_RemoteFirst ==
    (dsLast.valid /\ dsLast.op \in {"rename_specification", "delete_specification", "rename_entries", "delete_entries"} /\ dsLast.outcome = "raised") =>
        /\ dsCall.error = RequestError
        /\ specifications = dsLast.specsBefore
        /\ record_items = dsLast.itemsBefore
        /\ entry_names = dsCall.entryNamesBefore
        /\ entries = dsCall.entriesBefore

\* C24 witness: the request of a rename_entries that names a cached entry
\* raised
C24_Witness ==
    /\ dsLast.valid /\ dsLast.op = "rename_entries" /\ dsLast.outcome = "raised"
    /\ \E i \in DOMAIN entry_names.items :
          MapGet(dsCall.name_map, entry_names.items[i]) # entry_names.items[i]
    /\ \E i \in DOMAIN record_items.items :
          MapGet(dsCall.name_map, record_items.items[i].entry_name) # record_items.items[i].entry_name

\* after a successful rename_entries(m), every cached entry name x is m[x] if
\* x is a key of m and x otherwise
MapAppliedOnce ==
    (dsLast.valid /\ dsLast.op = "rename_entries" /\ dsLast.outcome = "returned") =>
        /\ entry_names.none = dsCall.entryNamesBefore.none
        /\ Len(entry_names.items) = Len(dsCall.entryNamesBefore.items)
        /\ \A i \in DOMAIN entry_names.items :
              entry_names.items[i] = MapGet(dsCall.name_map, dsCall.entryNamesBefore.items[i])
        /\ record_items.none = dsLast.itemsBefore.none
        /\ Len(record_items.items) = Len(dsLast.itemsBefore.items)
        /\ \A i \in DOMAIN record_items.items :
              /\ record_items.items[i].entry_name =
                    MapGet(dsCall.name_map, dsLast.itemsBefore.items[i].entry_name)
              /\ record_items.items[i].specification_name = dsLast.itemsBefore.items[i].specification_name
              /\ record_items.items[i].record = dsLast.itemsBefore.items[i].record

\* the rename with the inverse map has given back the names from before the
\* first rename
NamesRestored ==
    /\ entry_names = dsCall.entryNamesBefore
    /\ record_items = dsLast.itemsBefore

\* a rename with an injective map and then with its inverse were both accepted
RenamedAndBack ==
    dsLast.valid /\ dsLast.op = "rename_entries_back" /\ dsLast.outcome = "returned"

\* C28: rename_entries(m) applies m to every cached entry name once, so a swap
\* exchanges two names, and a rename with an injective map followed by one
\* with its inverse restores the names.
C28_RenameEntriesSimultaneous ==
    /\ MapAppliedOnce
    /\ RenamedAndBack => NamesRestored

\* C28 as amended: the same, the inverse restoring the names when no cached
\* name outside the keys of m is one of the names m renames to.
C28_RenameEntriesApart ==
    /\ MapAppliedOnce
    /\ (/\ RenamedAndBack
        /\ LET m == Inverse(dsCall.name_map)
               before == Range(dsCall.entryNamesBefore.items)
                            \cup {dsLast.itemsBefore.items[i].entry_name :
                                     i \in DOMAIN dsLast.itemsBefore.items}
           IN {m[x] : x \in DOMAIN m} \cap (before \ DOMAIN m) = {}) => NamesRestored

\* C28 witness: a swap of two cached entry names exchanged them, and the
\* inverse swap put them back
C28_Witness ==
    /\ RenamedAndBack /\ NamesRestored
    /\ \E x, y \in DOMAIN dsCall.name_map :
          /\ x # y /\ dsCall.name_map[x] = y /\ dsCall.name_map[y] = x
          /\ x \in Range(entry_names.items) /\ y \in Range(entry_names.items)
          /\ \E i \in DOMAIN record_items.items : record_items.items[i].entry_name = x


\* ------------------------------------ claims about downloads of record items
\* no two items of the list are for one (specification, entry) pair
OnePerPair(items) == \A i, j \in DOMAIN items : PairOf(items[i]) = PairOf(items[j]) => i = j

\* C22: after fetch_record_items calls whose responses hold one item per pair,
\* record_items holds at most one item per pair, every downloaded pair is
\* represented by the downloaded item, and the items of other pairs are kept.
C22_MergeKeepsOnePerPair ==
    (/\ dsLast.valid /\ dsLast.op = "fetch_record_items" /\ dsLast.outcome = "returned"
     /\ OnePerPair(dsLast.itemsBefore.items)) =>
        LET resp == dsCall.response
            got == {PairOf(resp[i]) : i \in DOMAIN resp}
            old == dsLast.itemsBefore.items
        IN /\ ~record_items.none
           /\ OnePerPair(record_items.items)
           /\ \A i \in DOMAIN resp : \E k \in DOMAIN record_items.items : record_items.items[k] = resp[i]
           /\ \A i \in DOMAIN old :
                 PairOf(old[i]) \notin got =>
                    \E k \in DOMAIN record_items.items : record_items.items[k] = old[i]
           /\ \A k \in DOMAIN record_items.items :
                 \/ \E i \in DOMAIN resp : record_items.items[k] = resp[i]
                 \/ \E i \in DOMAIN old : record_items.items[k] = old[i] /\ PairOf(old[i]) \notin got

\* C22 witness: a second download replaced an item of the snapshot by the
\* downloaded one and kept another
C22_Witness ==
    /\ dsLast.valid /\ dsLast.op = "fetch_record_items" /\ dsLast.outcome = "returned"
    /\ dsCall.requests = 2
    /\ \E i \in DOMAIN dsLast.itemsBefore.items, j \in DOMAIN dsCall.response :
          /\ PairOf(dsLast.itemsBefore.items[i]) = PairOf(dsCall.response[j])
          /\ dsLast.itemsBefore.items[i] # dsCall.response[j]
    /\ \E i \in DOMAIN dsLast.itemsBefore.items :
          \A j \in DOMAIN dsCall.response : PairOf(dsLast.itemsBefore.items[i]) # PairOf(dsCall.response[j])
    /\ OnePerPair(record_items.items)

\* C27: get_record issues no request when the snapshot has an item for the
\* pair and exactly one fetch_record_items request otherwise; it returns None
\* only when the pair is still absent after that fetch.
C27_GetRecordFetchesOnMiss ==
    (dsLast.valid /\ dsLast.op = "get_record") =>
        LET e == dsLast.entry_names[1]
            n == dsLast.specification_names[1]
            had == \E i \in DOMAIN dsLast.itemsBefore.items :
                      /\ dsLast.itemsBefore.items[i].entry_name = e
                      /\ dsLast.itemsBefore.items[i].specification_name = n
            has == \E i \in DOMAIN record_items.items :
                      /\ record_items.items[i].entry_name = e
                      /\ record_items.items[i].specification_name = n
        IN /\ had => dsCall.requests = 0 /\ record_items = dsLast.itemsBefore
           /\ ~had => dsCall.requests = 1
           /\ (dsLast.outcome = "returned" /\ dsCall.ret = "None") => ~has /\ dsCall.requests = 1
           /\ (dsLast.outcome = "returned" /\ has) => dsCall.ret # "None"

\* C27 witness: get_record missed, downloaded the pair and returned its record
C27_Witness ==
    /\ dsLast.valid /\ dsLast.op = "get_record" /\ dsLast.outcome = "returned"
    /\ dsCall.requests = 1 /\ dsCall.ret # "None"
    /\ ~dsLast.itemsBefore.none /\ Len(dsLast.itemsBefore.items) > 0


\* ------------------------------------------------- claims about the metadata
\* C25: when the request of set_name raises, name and lname both equal the
\* values they had before the call, so lname is the lower-cased name.
C25_SetNameRollsBack ==
    (dsLast.valid /\ dsLast.op = "set_name" /\ dsLast.outcome = "raised") =>
        /\ dsCall.error = RequestError
        /\ metadata.name = dsCall.metadataBefore.name
        /\ metadata.lname = dsCall.metadataBefore.lname
        /\ (dsCall.metadataBefore.lname = Lower(dsCall.metadataBefore.name) =>
               metadata.lname = Lower(metadata.name))

\* C26: when the request of set_description raises, the original error is
\* re-raised and description equals the value it had before the call.
C26_SetDescriptionRollsBack ==
    (dsLast.valid /\ dsLast.op = "set_description" /\ dsLast.outcome = "raised") =>
        /\ dsCall.error = RequestError
        /\ metadata.description = dsCall.metadataBefore.description


\* --------------------------------------------- claims about growing entry_names
\* C30: if the entry_names list has no duplicates, then after
\* _append_entry_names or fetch_entries with any names, repeated or already
\* present, it has no duplicates and the names it had keep their positions.
C30_EntryNamesStayDistinct ==
    (/\ dsLast.valid /\ dsLast.op \in {"_append_entry_names", "fetch_entries"}
     /\ ~dsCall.entryNamesBefore.none /\ NoDuplicates(dsCall.entryNamesBefore.items)) =>
        LET before == dsCall.entryNamesBefore.items
            given == IF dsLast.op = "fetch_entries" THEN dsCall.response ELSE dsLast.entry_names
        IN /\ ~entry_names.none
           /\ NoDuplicates(entry_names.items)
           /\ Len(entry_names.items) >= Len(before)
           /\ \A i \in DOMAIN before : entry_names.items[i] = before[i]
           /\ Range(entry_names.items) =
                 IF dsLast.outcome = "raised" THEN Range(before) ELSE Range(before) \cup Range(given)

\* C30 witness: names were appended to a list that had some, from a list that
\* repeats a new name and holds a name already present
C30_Witness ==
    /\ dsLast.valid /\ dsLast.op = "_append_entry_names"
    /\ ~dsCall.entryNamesBefore.none /\ Len(dsCall.entryNamesBefore.items) > 0
    /\ \E i, j \in DOMAIN dsLast.entry_names :
          /\ i # j /\ dsLast.entry_names[i] = dsLast.entry_names[j]
          /\ dsLast.entry_names[i] \notin Range(dsCall.entryNamesBefore.items)
    /\ \E i \in DOMAIN dsLast.entry_names : dsLast.entry_names[i] \in Range(dsCall.entryNamesBefore.items)
    /\ NoDuplicates(entry_names.items)
    /\ Len(entry_names.items) = Len(dsCall.entryNamesBefore.items) + 1


====
